---- MODULE Spec2Model ----
(***************************************************************************)
(* Model of src/Huying/week2_torch_huying.py: the label rule, the dataset  *)
(* builder, the evaluator, the training loop of main() and predict().      *)
(*                                                                         *)
(* Numbers.  np.random.random returns doubles k / 2^53 with 0 <= k < 2^53. *)
(* The model scales the two floating-point formats down: a "double" has    *)
(* DoubleBits bits of mantissa and a random component is k / Grid with     *)
(* Grid = 2^DoubleBits, held as the integer k; a "single" (torch's         *)
(* FloatTensor) has SingleBits < DoubleBits bits of mantissa.  Both round  *)
(* to nearest, ties to even, as IEEE 754 does.                             *)
(* Probabilities are the integers 0..PScale, p standing for p / PScale.    *)
(***************************************************************************)
EXTENDS Integers, Sequences, FiniteSets, TLC

\* ------------------------------------------------------------------ bounds
\* bits of mantissa of a double and of a single (53 and 24)
DoubleBits == 3
SingleBits == 2
\* build_dataset called alone: total_sample_num is at most MaxN
MaxN == 2
\* main's configuration: epoch_num, batch_size and train_sample at most these
MaxEpoch == 2
MaxBatch == 2
MaxTrain == 3
\* the most optimizer steps a run of a modelled configuration takes
MaxSteps == 4
\* evaluate()'s test_sample_num (200 in the source), scaled down
test_sample_num == 2
\* half of the probability scale: p = PHalf stands for 0.5
PHalf == 2

RECURSIVE Pow2(_)
Pow2(n) == IF n = 0 THEN 1 ELSE 2 * Pow2(n - 1)

Grid == Pow2(DoubleBits)
PScale == 2 * PHalf
\* nan, as the quotient 0 / 0 (losses and means are pairs <<n, d>>)
NaN == <<0, 0>>
\* a name not bound yet, for the names that hold sequences and pairs
None == <<>>

\* ------------------------------------------------------- floating point
RECURSIVE BitLen(_)
BitLen(k) == IF k = 0 THEN 0 ELSE 1 + BitLen(k \div 2)

\* k rounded to `bits` significant bits, round-to-nearest, ties-to-even
RoundToBits(k, bits) ==
    IF BitLen(k) <= bits THEN k
    ELSE LET q  == Pow2(BitLen(k) - bits)
             m  == k \div q
             r  == k - m * q
         IN  IF 2 * r < q THEN m * q
             ELSE IF 2 * r > q THEN (m + 1) * q
             ELSE IF m % 2 = 0 THEN m * q ELSE (m + 1) * q

\* x[1]+x[4] of line 45: a double-precision addition
FAdd(a, b) == RoundToBits(a + b, DoubleBits)

\* one component through torch.FloatTensor: double -> single
ToFloat32(k) == RoundToBits(k, SingleBits)

\* ------------------------------------------------------------ label rule
\* the vectors np.random.random(6) can return (components 3, 4 and 6, which
\* the rule never reads, are drawn from the two ends of the range)
RandVals == 0 .. (Grid - 1)
OtherVals == {0, Grid - 1}
RandomVectors ==
    {<<a, b, c, d, e, f>> : a \in RandVals, b \in RandVals, e \in RandVals,
                             c \in OtherVals, d \in OtherVals, f \in OtherVals}
\* the same with the unread components fixed
RuleVectors ==
    {<<a, b, 0, 0, e, 0>> : a \in RandVals, b \in RandVals, e \in RandVals}

build_sample_ge(x) == IF x[1] >= FAdd(x[2], x[5]) THEN <<x, 1>> ELSE <<x, 0>>
\* build_sample with the vector the generator returned (Python's x[0], x[1],
\* x[4] are x[1], x[2], x[5] here)
build_sample(x) == IF x[1] > FAdd(x[2], x[5]) THEN <<x, 1>> ELSE <<x, 0>>

\* torch.FloatTensor(X) of line 60, row by row
FloatTensor(X) == [i \in 1 .. Len(X) |-> [j \in 1 .. Len(X[i]) |-> ToFloat32(X[i][j])]]

\* build_dataset(total_sample_num), rnd being the total_sample_num vectors
\* the generator returns: turn i of the loop appends build_sample's x to X
\* and [y] to Y, and line 60 converts both lists
build_dataset(rnd) ==
    <<FloatTensor([i \in 1 .. Len(rnd) |-> build_sample(rnd[i])[1]]),
      FloatTensor([i \in 1 .. Len(rnd) |-> <<build_sample(rnd[i])[2]>>])>>

\* ---------------------------------------------------------- linear model
\* Model Parameters: six weights and a bias (nn.Linear(6, 1)), on the grid.
\* The optimizer's arithmetic is not modelled: a step may leave any of these.
ZeroParams == [w |-> <<0, 0, 0, 0, 0, 0>>, b |-> 0]
RuleParams == [w |-> <<1, -1, 0, 0, -1, 0>>, b |-> 0]
ParamVals == {ZeroParams, RuleParams}
\* no model yet, no file yet
NoParams == [w |-> <<>>, b |-> 0]

RECURSIVE Dot(_, _, _)
Dot(w, f, i) == IF i > Len(w) THEN 0 ELSE w[i] * f[i] + Dot(w, f, i + 1)

\* self.linear(x) for one row
Linear(P, f) == Dot(P.w, f, 1) + P.b

\* torch.sigmoid on the probability scale: increasing, Sigmoid(0) = 1/2,
\* and saturating at 0 and 1 as single precision does
Sigmoid(z) ==
    IF PHalf + z < 0 THEN 0 ELSE IF PHalf + z > PScale THEN PScale ELSE PHalf + z

\* forward(x): one probability per row
Forward(P, X) == [i \in 1 .. Len(X) |-> Sigmoid(Linear(P, X[i]))]

RECURSIVE SqErr(_, _, _)
SqErr(yp, yt, i) ==
    IF i > Len(yp) THEN 0
    ELSE (yp[i] - PScale * yt[i][1]) * (yp[i] - PScale * yt[i][1]) + SqErr(yp, yt, i + 1)

\* forward(x, y): mse_loss, <<n, d>> standing for n / (d * PScale^2)
Loss(P, X, Y) ==
    IF Len(X) = 0 THEN NaN ELSE <<SqErr(Forward(P, X), Y, 1), Len(X)>>

RECURSIVE SumNum(_, _)
SumNum(ls, i) == IF i > Len(ls) THEN 0 ELSE ls[i][1] + SumNum(ls, i + 1)

\* np.mean(watch_loss): nan for the empty list (numpy warns, does not raise);
\* every loss of an epoch has the same denominator, the batch size
Mean(ls) ==
    IF Len(ls) = 0 THEN NaN
    ELSE IF \E i \in 1 .. Len(ls) : ls[i] = NaN THEN NaN
    ELSE <<SumNum(ls, 1), ls[1][2] * Len(ls)>>

\* Python's round() of p / PScale: round half to even
PyRound(p) ==
    LET q == p \div PScale
        r == p % PScale
    IN  IF 2 * r < PScale THEN q
        ELSE IF 2 * r > PScale THEN q + 1
        ELSE IF q % 2 = 0 THEN q ELSE q + 1

\* a[lo:hi] of Python (0-based, hi exclusive, clipped to the length)
Slice(a, lo, hi) ==
    LET h == IF hi > Len(a) THEN Len(a) ELSE hi
    IN  IF lo >= h THEN <<>> ELSE [i \in 1 .. (h - lo) |-> a[lo + i]]

\* the vectors the training, evaluation and prediction runs draw from: a
\* positive sample and a negative one
TrainPool == {<<6, 1, 0, 0, 1, 0>>, <<1, 2, 0, 0, 2, 0>>}

Streams(S, n) == [1 .. n -> S]

\* test_vec of lines 141-144, scaled down: a vector the rule makes positive
\* and one it makes negative
test_vec == << <<6, 1, 0, 0, 1, 0>>, <<1, 2, 0, 0, 2, 0>> >>

\* ----------------------------------------------------------------- state
\* pc            where the script is
\* epoch_num, batch_size, train_sample   main's configuration (lines 86-89)
\* params, training, grad   the model's parameters, its train/eval mode, and
\*               the batches <<epoch, batch_index>> whose gradients the
\*               parameters' .grad holds since the last zero_grad
\* train_x, train_y; epoch, batch_index, watch_loss, batch_x (x), batch_y (y),
\*               loss; log   main's locals
\* eval_x (x), eval_y (y), y_pred, correct, wrong, eval_i, acc   evaluate's
\*               locals, its position in zip(y_pred, y), and what it returned
\* saved         the file model_ok.pth;  plotted   what plt.plot was given
\* input_vec, pparams, result, printed   predict's arguments, its model's
\*               parameters, its result and the lines it printed
\* steps, saves, evals, builds, batches_seen   history: the calls of
\*               optim.step, torch.save, evaluate and build_dataset(train_sample)
\*               so far, and every <<epoch, batch_index, x, y>> sliced
\* rnd, out      the argument and the result of a function called alone
VARIABLES
    pc,
    epoch_num, batch_size, train_sample,
    params, training, grad,
    train_x, train_y,
    epoch, batch_index, watch_loss, batch_x, batch_y, loss,
    eval_x, eval_y, y_pred, correct, wrong, eval_i, acc,
    log, saved, plotted,
    input_vec, pparams, result, printed,
    steps, saves, evals, builds, batches_seen,
    rnd, out

cfgv == <<epoch_num, batch_size, train_sample>>
mdlv == <<params, training, grad>>
datav == <<train_x, train_y>>
loopv == <<epoch, batch_index, watch_loss, batch_x, batch_y, loss>>
evalv == <<eval_x, eval_y, y_pred, correct, wrong, eval_i, acc>>
outv == <<log, saved, plotted>>
predv == <<input_vec, pparams, result, printed>>
ghostv == <<steps, saves, evals, builds, batches_seen>>
purev == <<rnd, out>>
vars == <<pc, cfgv, mdlv, datav, loopv, evalv, outv, predv, ghostv, purev>>

\* everything but pc and the configuration, before anything has run
Blank ==
    /\ params = NoParams /\ training = TRUE /\ grad = <<>>
    /\ train_x = None /\ train_y = None
    /\ epoch = 0 /\ batch_index = 0 /\ watch_loss = <<>>
    /\ batch_x = None /\ batch_y = None /\ loss = None
    /\ eval_x = None /\ eval_y = None /\ y_pred = None
    /\ correct = 0 /\ wrong = 0 /\ eval_i = 0 /\ acc = None
    /\ log = <<>> /\ saved = NoParams /\ plotted = <<>>
    /\ input_vec = None /\ pparams = NoParams /\ result = None /\ printed = <<>>
    /\ steps = 0 /\ saves = 0 /\ evals = 0 /\ builds = 0 /\ batches_seen = {}

\* ------------------------------------------------- build_sample, alone
SampleInit ==
    /\ pc = "call" /\ Blank
    /\ epoch_num = 0 /\ batch_size = 1 /\ train_sample = 0
    /\ rnd \in RandomVectors /\ out = None

CallBuildSample ==
    /\ pc = "call"
    /\ out' = build_sample(rnd)
    /\ pc' = "returned"
    /\ UNCHANGED <<cfgv, mdlv, datav, loopv, evalv, outv, predv, ghostv, rnd>>

SpecSample == SampleInit /\ [][CallBuildSample]_vars

\* ------------------------------------------------ build_dataset, alone
DatasetInit ==
    /\ pc = "call" /\ Blank
    /\ epoch_num = 0 /\ batch_size = 1 /\ train_sample = 0
    /\ \E n \in 0 .. MaxN : rnd \in Streams(RuleVectors, n)
    /\ out = None

CallBuildDataset ==
    /\ pc = "call"
    /\ out' = build_dataset(rnd)
    /\ pc' = "returned"
    /\ UNCHANGED <<cfgv, mdlv, datav, loopv, evalv, outv, predv, ghostv, rnd>>

SpecDataset == DatasetInit /\ [][CallBuildDataset]_vars

\* -------------------------------------------------------------- evaluate
\* lines 66-72: model.eval(), the fresh evaluation set, the two counters,
\* y_pred = model(x) under no_grad
EvalEnter ==
    /\ pc = "eval_enter"
    /\ training' = FALSE
    /\ \E r \in Streams(TrainPool, test_sample_num) :
         LET d == build_dataset(r) IN eval_x' = d[1] /\ eval_y' = d[2]
    /\ y_pred' = Forward(params, eval_x')
    /\ correct' = 0 /\ wrong' = 0
    /\ eval_i' = 1
    /\ evals' = evals + 1
    /\ pc' = "eval_loop"
    /\ UNCHANGED <<cfgv, params, grad, datav, loopv, acc, outv, predv, steps,
                   saves, builds, batches_seen, purev>>

\* the class evaluate assigns to a probability: positive iff p >= 0.5
EvalClass(p) == IF p >= PHalf THEN 1 ELSE 0

\* lines 74-79 for one pair of zip(y_pred, y): <<correct, wrong>> afterwards
CompareSkipWrong(p, t, c, w) ==
    IF p < PHalf /\ t = 0 THEN <<c + 1, w>>
    ELSE IF p >= PHalf /\ t = 1 THEN <<c + 1, w>>
    ELSE <<c, w>>
Compare(p, t, c, w) ==
    IF p < PHalf /\ t = 0 THEN <<c + 1, w>>
    ELSE IF p >= PHalf /\ t = 1 THEN <<c + 1, w>>
    ELSE <<c, w + 1>>

\* line 73: one turn of the loop over zip(y_pred, y); after the last one,
\* lines 80-81: correct / (correct + wrong), <<n, d>> standing for n / d,
\* where a zero denominator raises ZeroDivisionError; the locals of the call
\* are gone when it returns
EvalLoop ==
    /\ pc = "eval_loop"
    /\ IF eval_i <= Len(y_pred) /\ eval_i <= Len(eval_y)
       THEN LET r == Compare(y_pred[eval_i], eval_y[eval_i][1], correct, wrong)
            IN  /\ correct' = r[1] /\ wrong' = r[2]
                /\ eval_i' = eval_i + 1
                /\ pc' = "eval_loop"
                /\ UNCHANGED <<eval_x, eval_y, y_pred, acc>>
       ELSE /\ IF correct + wrong = 0
               THEN pc' = "crashed" /\ UNCHANGED acc
               ELSE pc' = "log" /\ acc' = <<correct, correct + wrong>>
            /\ eval_x' = None /\ eval_y' = None /\ y_pred' = None
            /\ correct' = 0 /\ wrong' = 0 /\ eval_i' = 0
    /\ UNCHANGED <<cfgv, mdlv, datav, loopv, outv, predv, ghostv, purev>>

\* ------------------------------------------------------------------ main
\* lines 86-96: the configuration, the model, the optimizer, the empty log
MainSetup ==
    /\ pc = "main"
    /\ params' \in ParamVals
    /\ log' = <<>>
    /\ pc' = "build"
    /\ UNCHANGED <<cfgv, training, grad, datav, loopv, evalv, saved, plotted,
                   predv, ghostv, purev>>

\* line 98: train_x, train_y = build_dataset(train_sample)
BuildTrain ==
    /\ pc = "build"
    /\ \E r \in Streams(TrainPool, train_sample) :
         LET d == build_dataset(r) IN train_x' = d[1] /\ train_y' = d[2]
    /\ builds' = builds + 1
    /\ pc' = "epoch"
    /\ UNCHANGED <<cfgv, mdlv, loopv, evalv, outv, predv, steps, saves, evals,
                   batches_seen, purev>>

EpochLoopResample ==
    /\ pc = "epoch"
    /\ IF epoch < epoch_num
       THEN /\ training' = TRUE
            /\ watch_loss' = <<>>
            /\ batch_index' = 0
            /\ \E r \in Streams(TrainPool, train_sample) :
                 LET d == build_dataset(r) IN train_x' = d[1] /\ train_y' = d[2]
            /\ pc' = "batch"
       ELSE /\ pc' = "save"
            /\ UNCHANGED <<training, watch_loss, batch_index, datav>>
    /\ UNCHANGED <<cfgv, params, grad, epoch, batch_x, batch_y, loss,
                   evalv, outv, predv, ghostv, purev>>
\* lines 100-102: the next epoch (model.train(), watch_loss = []), or the end
EpochLoop ==
    /\ pc = "epoch"
    /\ IF epoch < epoch_num
       THEN /\ training' = TRUE
            /\ watch_loss' = <<>>
            /\ batch_index' = 0
            /\ pc' = "batch"
       ELSE /\ pc' = "save"
            /\ UNCHANGED <<training, watch_loss, batch_index>>
    /\ UNCHANGED <<cfgv, params, grad, datav, epoch, batch_x, batch_y, loss,
                   evalv, outv, predv, ghostv, purev>>

NumBatchesCeil == (train_sample + batch_size - 1) \div batch_size
NumBatchesAtLeastOne ==
    IF train_sample \div batch_size = 0 /\ train_sample > 0 THEN 1
    ELSE train_sample \div batch_size
\* range(train_sample // batch_size) of line 103
NumBatches == train_sample \div batch_size

\* lines 103-105: the next batch's two slices, or the end of the batch loop
\* (lines 111-112: the mean loss is printed and evaluate(model) is called)
BatchLoop ==
    /\ pc = "batch"
    /\ IF batch_index < NumBatches
       THEN /\ batch_x' = Slice(train_x, batch_index * batch_size,
                                (batch_index + 1) * batch_size)
            /\ batch_y' = Slice(train_y, batch_index * batch_size,
                                (batch_index + 1) * batch_size)
            /\ batches_seen' = batches_seen \cup
                                 {<<epoch, batch_index, batch_x', batch_y'>>}
            /\ pc' = "zero_grad"
       ELSE /\ pc' = "eval_enter"
            /\ UNCHANGED <<batch_x, batch_y, batches_seen>>
    /\ UNCHANGED <<cfgv, mdlv, datav, epoch, batch_index, watch_loss, loss,
                   evalv, outv, predv, steps, saves, evals, builds, purev>>

ZeroGradSkipped ==
    /\ pc = "zero_grad"
    /\ pc' = "forward"
    /\ UNCHANGED <<cfgv, mdlv, datav, loopv, evalv, outv, predv, ghostv, purev>>
\* line 106: optim.zero_grad()
ZeroGrad ==
    /\ pc = "zero_grad"
    /\ grad' = <<>>
    /\ pc' = "forward"
    /\ UNCHANGED <<cfgv, params, training, datav, loopv, evalv, outv, predv,
                   ghostv, purev>>

\* line 107: loss = model(x, y)
ComputeLoss ==
    /\ pc = "forward"
    /\ loss' = Loss(params, batch_x, batch_y)
    /\ pc' = "backward"
    /\ UNCHANGED <<cfgv, mdlv, datav, epoch, batch_index, watch_loss, batch_x,
                   batch_y, evalv, outv, predv, ghostv, purev>>

\* line 108: loss.backward() adds this batch's gradients to those held
Backward ==
    /\ pc = "backward"
    /\ grad' = Append(grad, <<epoch, batch_index>>)
    /\ pc' = "step"
    /\ UNCHANGED <<cfgv, params, training, datav, loopv, evalv, outv, predv,
                   ghostv, purev>>

\* line 109: optim.step()
OptimStep ==
    /\ pc = "step"
    /\ params' \in ParamVals
    /\ steps' = steps + 1
    /\ pc' = "append"
    /\ UNCHANGED <<cfgv, training, grad, datav, loopv, evalv, outv, predv,
                   saves, evals, builds, batches_seen, purev>>

\* line 110: watch_loss.append(loss.item()), and on to the next batch
AppendLoss ==
    /\ pc = "append"
    /\ watch_loss' = Append(watch_loss, loss)
    /\ batch_index' = batch_index + 1
    /\ pc' = "batch"
    /\ UNCHANGED <<cfgv, mdlv, datav, epoch, batch_x, batch_y, loss, evalv,
                   outv, predv, ghostv, purev>>

LogAppendOverwrite ==
    /\ pc = "log"
    /\ log' = << <<acc, Mean(watch_loss)>> >>
    /\ epoch' = epoch + 1
    /\ pc' = "epoch"
    /\ UNCHANGED <<cfgv, mdlv, datav, batch_index, watch_loss, batch_x, batch_y,
                   loss, evalv, saved, plotted, predv, ghostv, purev>>
LogAppendAndSave ==
    /\ pc = "log"
    /\ log' = Append(log, <<acc, Mean(watch_loss)>>)
    /\ epoch' = epoch + 1
    /\ saved' = params
    /\ saves' = saves + 1
    /\ pc' = "epoch"
    /\ UNCHANGED <<cfgv, mdlv, datav, batch_index, watch_loss, batch_x, batch_y,
                   loss, evalv, plotted, predv, steps, evals, builds,
                   batches_seen, purev>>
\* line 113: log.append([acc, mean loss]), and on to the next epoch
LogAppend ==
    /\ pc = "log"
    /\ log' = Append(log, <<acc, Mean(watch_loss)>>)
    /\ epoch' = epoch + 1
    /\ pc' = "epoch"
    /\ UNCHANGED <<cfgv, mdlv, datav, batch_index, watch_loss, batch_x, batch_y,
                   loss, evalv, saved, plotted, predv, ghostv, purev>>

\* line 115: torch.save(model.state_dict(), "model_ok.pth")
Save ==
    /\ pc = "save"
    /\ saved' = params
    /\ saves' = saves + 1
    /\ pc' = "plot"
    /\ UNCHANGED <<cfgv, mdlv, datav, loopv, evalv, log, plotted, predv, steps,
                   evals, builds, batches_seen, purev>>

\* lines 117-122: the log goes to the plot (plotted holds what the plot was
\* given), main returns
Plot ==
    /\ pc = "plot"
    /\ plotted' = Append(plotted, log)
    /\ pc' = "done"
    /\ UNCHANGED <<cfgv, mdlv, datav, loopv, evalv, log, saved, predv, ghostv,
                   purev>>

\* --------------------------------------------------------------- predict
\* line 146 and lines 127-134: predict("model_ok.pth", test_vec): a fresh
\* model, the saved weights loaded into it, eval mode, and
\* result = model.forward(torch.FloatTensor(input_vec))
PredictLoad ==
    /\ pc = "done"
    /\ input_vec' = test_vec
    /\ pparams' = saved
    /\ result' = Forward(saved, FloatTensor(test_vec))
    /\ pc' = IF Len(test_vec) = 0 THEN "exit" ELSE "predict_print"
    /\ UNCHANGED <<cfgv, mdlv, datav, loopv, evalv, outv, printed, ghostv, purev>>

\* lines 135-136: one line of zip(input_vec, result): the vector, round(p), p
PredictPrint ==
    /\ pc = "predict_print"
    /\ LET i == Len(printed) + 1
       IN  /\ printed' = Append(printed,
                                <<input_vec[i], PyRound(result[i]), result[i]>>)
           /\ pc' = IF i < Len(input_vec) /\ i < Len(result)
                    THEN "predict_print" ELSE "exit"
    /\ UNCHANGED <<cfgv, mdlv, datav, loopv, evalv, outv, input_vec, pparams,
                   result, ghostv, purev>>

\* ----------------------------------------------------------- the script
Init ==
    /\ pc = "main" /\ Blank
    /\ epoch_num \in 0 .. MaxEpoch
    /\ batch_size \in 1 .. MaxBatch
    /\ train_sample \in 0 .. MaxTrain
    /\ epoch_num * (train_sample \div batch_size) <= MaxSteps
    /\ rnd = None /\ out = None

Next ==
    \/ MainSetup \/ BuildTrain \/ EpochLoop \/ BatchLoop
    \/ ZeroGrad \/ ComputeLoss \/ Backward \/ OptimStep \/ AppendLoss
    \/ EvalEnter \/ EvalLoop
    \/ LogAppend \/ Save \/ Plot
    \/ PredictLoad \/ PredictPrint

Spec == Init /\ [][Next]_vars

\* the script is one thread that runs to its end
FairSpec == Spec /\ WF_vars(Next)

\* ================================================================ claims
InBatch == pc \in {"zero_grad", "forward", "backward", "step", "append"}
InEval == pc \in {"eval_enter", "eval_loop"}
AfterLoop == pc \in {"save", "plot", "done", "predict_print", "exit"}
AfterSave == pc \in {"plot", "done", "predict_print", "exit"}
AfterPlot == pc \in {"done", "predict_print", "exit"}

\* the Label Rule as the specification states it, in exact arithmetic
LabelRule(f) == IF f[1] > f[2] + f[5] THEN 1 ELSE 0

\* C1: the label build_sample returns with a vector x is 1 iff
\* x[0] > x[1] + x[4] (exactly), is 0 otherwise, is never anything but 0 or 1,
\* and is the same for every vector that differs from x only in x[2], x[3], x[5].
C1_LabelIffRule ==
    pc = "returned" =>
        /\ out[1] = rnd
        /\ out[2] \in {0, 1}
        /\ (out[2] = 1 <=> rnd[1] > rnd[2] + rnd[5])
        /\ \A a \in OtherVals, b \in OtherVals, c \in OtherVals :
             build_sample([rnd EXCEPT ![3] = a, ![4] = b, ![6] = c])[2] = out[2]

\* a positive sample just above the boundary, its unread components non-zero
C1_Witness ==
    /\ pc = "returned" /\ out[2] = 1
    /\ rnd[1] = rnd[2] + rnd[5] + 1
    /\ rnd[3] # 0 /\ rnd[4] # 0 /\ rnd[6] # 0

\* C2: build_dataset(N) returns N features and N labels, and labels[i] is the
\* label the Label Rule assigns to features[i].
C2_LabelsMatchFeatures ==
    pc = "returned" =>
        /\ Len(out[1]) = Len(rnd)
        /\ Len(out[2]) = Len(rnd)
        /\ \A i \in 1 .. Len(out[1]) : out[2][i][1] = LabelRule(out[1][i])

\* C3: in evaluate every compared sample increments exactly one of correct and
\* wrong, so that after the loop correct + wrong is the evaluation sample count,
\* the division is never by zero and the accuracy is in [0, 1].
C3_CountersSumToSampleCount ==
    /\ pc # "crashed"
    /\ pc = "eval_loop" =>
         /\ correct + wrong = eval_i - 1
         /\ correct >= 0 /\ wrong >= 0
         /\ Len(y_pred) = test_sample_num /\ Len(eval_y) = test_sample_num
    /\ (pc = "eval_loop" /\ ~(eval_i <= Len(y_pred) /\ eval_i <= Len(eval_y))) =>
         /\ correct + wrong = test_sample_num
         /\ correct + wrong > 0
    /\ acc # None =>
         /\ acc[2] = test_sample_num
         /\ 0 <= acc[1] /\ acc[1] <= acc[2]

\* an evaluation that got one sample right and one wrong
C3_Witness ==
    /\ pc = "eval_loop" /\ eval_i = test_sample_num + 1
    /\ correct > 0 /\ wrong > 0

\* the batch indices sliced so far in epoch e
SeenIn(e) == {t[2] : t \in {u \in batches_seen : u[1] = e}}

\* C4: an epoch processes exactly floor(train_sample / batch_size) batches;
\* batch k is exactly the indices [k*batch_size, (k+1)*batch_size) of the
\* features and of the labels, of full size, and the trailing
\* train_sample mod batch_size samples are in no batch.
C4_BatchesPartition ==
    /\ \A t \in batches_seen :
         /\ t[2] >= 0 /\ t[2] < train_sample \div batch_size
         /\ (t[2] + 1) * batch_size <= train_sample
         /\ Len(t[3]) = batch_size /\ Len(t[4]) = batch_size
         /\ \A i \in 1 .. batch_size :
              /\ t[3][i] = train_x[t[2] * batch_size + i]
              /\ t[4][i] = train_y[t[2] * batch_size + i]
    /\ InBatch =>
         /\ SeenIn(epoch) = 0 .. batch_index
         /\ Len(watch_loss) = batch_index
    /\ pc = "batch" =>
         /\ SeenIn(epoch) = 0 .. (batch_index - 1)
         /\ Len(watch_loss) = batch_index
    /\ (InEval \/ pc = "log") =>
         /\ batch_index = train_sample \div batch_size
         /\ Len(watch_loss) = train_sample \div batch_size
         /\ SeenIn(epoch) = 0 .. ((train_sample \div batch_size) - 1)

\* the second epoch's batch loop ends after a batch, with a sample left over
C4_Witness ==
    /\ pc = "eval_enter" /\ epoch = 1
    /\ batch_index >= 1 /\ train_sample % batch_size # 0

\* C5: the log is append-only and gets one pair per epoch, appended after all
\* of the epoch's batches and one call of evaluate; at the end it has
\* epoch_num entries.
C5_LogAppendOnly ==
    /\ [](/\ Len(log) = epoch
          /\ Len(log) <= evals /\ evals <= Len(log) + 1
          /\ pc = "log" => (evals = Len(log) + 1 /\ acc # None)
          /\ AfterLoop => (Len(log) = epoch_num /\ evals = epoch_num)
          /\ AfterPlot => plotted = <<log>>)
    /\ [][/\ Len(log') >= Len(log)
          /\ Len(log') <= Len(log) + 1
          /\ SubSeq(log', 1, Len(log)) = log
          /\ Len(log') = Len(log) + 1 =>
               /\ pc = "log"
               /\ batch_index = train_sample \div batch_size
               /\ Len(watch_loss) = train_sample \div batch_size
               /\ log'[Len(log')] = <<acc, Mean(watch_loss)>>]_vars

\* a finished run of two epochs, the first with a mean loss
C5_Witness == pc = "done" /\ Len(log) = 2 /\ log[1][2] # NaN

\* C6: every run ends in Done after epoch_num epochs; the parameters are
\* saved once, after the last epoch's log entry and before the log goes to
\* the plot; no optimizer step follows the save.
C6_SavedOnceAtDone ==
    /\ [](/\ saves <= 1
          /\ (saves = 0) = (saved = NoParams)
          /\ saves = 1 => (AfterSave /\ epoch = epoch_num /\ Len(log) = epoch_num
                           /\ saved = params)
          /\ plotted # <<>> => saves = 1
          /\ AfterSave => saves = 1)
    /\ [][saves >= 1 => (steps' = steps /\ params' = params /\ saved' = saved)]_vars
    /\ <>(pc = "done" /\ epoch = epoch_num /\ saves = 1 /\ plotted = <<log>>)

\* a two-epoch run with optimizer steps, at Done
C6_Witness == pc = "done" /\ epoch_num = 2 /\ steps > 0 /\ saves = 1

\* C7: the training set is built once, before the first epoch, and nothing
\* changes it afterwards; batch k holds the same samples in every epoch; the
\* evaluator's own dataset never replaces it.
C7_TrainingSetFixed ==
    /\ [](/\ builds <= 1
          /\ pc \notin {"main", "build"} => builds = 1
          /\ builds = 0 => epoch = 0 /\ steps = 0
          /\ \A t \in batches_seen, u \in batches_seen :
               t[2] = u[2] => (t[3] = u[3] /\ t[4] = u[4]))
    /\ [][builds >= 1 => (train_x' = train_x /\ train_y' = train_y)]_vars

\* the second batch of the second epoch, after an evaluation
C7_Witness ==
    /\ pc = "zero_grad" /\ epoch = 1 /\ batch_index = 1 /\ evals = 1
    /\ train_x[1] # train_x[2]

\* C8: with batch_size > train_sample an epoch has no batch and nothing
\* crashes: no optimizer step, every epoch evaluated and logged (with a nan
\* mean loss), and the run reaches Done with the parameters saved.
C8_ZeroBatchesNoCrash ==
    /\ [](batch_size > train_sample =>
            /\ pc # "crashed"
            /\ ~InBatch
            /\ steps = 0 /\ batches_seen = {} /\ watch_loss = <<>>
            /\ \A i \in 1 .. Len(log) : log[i][2] = NaN /\ log[i][1] # None
            /\ AfterLoop => (Len(log) = epoch_num /\ evals = epoch_num))
    /\ (batch_size > train_sample =>
            <>(pc = "done" /\ saved # NoParams /\ Len(log) = epoch_num /\ steps = 0))

\* a two-epoch run over one sample with batches of two, at Done
C8_Witness ==
    /\ pc = "done" /\ batch_size > train_sample /\ train_sample > 0
    /\ epoch_num = 2 /\ Len(log) = 2

\* C9: the parameters change only in the optimizer step, one step per
\* processed batch (epoch_num * floor(train_sample / batch_size) in a run),
\* taken in training mode on gradients reset and recomputed for that batch;
\* evaluate and predict leave them as they are.
C9_OnlyOptimizerStepWrites ==
    /\ [](/\ pc = "step" => (training /\ grad = << <<epoch, batch_index>> >>)
          /\ (pc = "batch" \/ InBatch) =>
               steps = epoch * (train_sample \div batch_size) + batch_index
                       + (IF pc = "append" THEN 1 ELSE 0)
          /\ AfterLoop => steps = epoch_num * (train_sample \div batch_size)
          /\ pparams # NoParams => pparams = saved)
    /\ [][/\ params' # params => (pc = "step" \/ pc = "main")
          /\ steps' # steps => (pc = "step" /\ steps' = steps + 1)
          /\ (pparams # NoParams) => pparams' = pparams]_vars

\* the last step of a run of two epochs of two batches
C9_Witness == pc = "step" /\ epoch = 1 /\ batch_index = 1 /\ steps = 3

\* C10: the class predict prints, round(p), is the class evaluate's threshold
\* assigns to p (positive iff p >= 0.5), also at p = 0.5.
C10_RoundIsThreshold ==
    \A i \in 1 .. Len(printed) : printed[i][2] = EvalClass(printed[i][3])

====
